---- MODULE Spec2Model ----
(***************************************************************************)
(* Card image generator (src/src/App.tsx): the App component's state, its  *)
(* event handlers, the useImage hook, the canvas render effect and the     *)
(* pure helpers roundRect and fitContain.                                  *)
(*                                                                         *)
(* Text is modelled as a sequence of UTF-16 code units, each unit written  *)
(* as a short string; numbers of the layout are the integers of the source.*)
(* JavaScript numbers that are not integers (fitContain) are modelled as   *)
(* IEEE-754 binary64 values, rounded to nearest, ties to even.             *)
(***************************************************************************)
EXTENDS Integers, Sequences, FiniteSets, TLC

\* ------------------------------------------------------------ constants
CANVAS_W == 720
CANVAS_H == 1136

\* null, where the source holds a string or null
None == "null"
\* null, where the source holds an Image or null: Images are numbered from 1
NoImg == 0
\* undefined, where the source reads an array of texts past its end
Undefined == <<"undefined">>

\* The nine preset races, one string per code unit.
DEFAULT_RACES ==
  << <<"ma", "zoku">>, <<"nin", "gen">>, <<"kemono">>, <<"ki", "kai">>,
     <<"fu", "shi">>, <<"sei", "rei">>, <<"ryu">>, <<"ten", "shi">>,
     <<"aku", "ma">> >>

FrameStyles == {"neo", "classic", "dark", "holo"}

\* useState("...") of the title: six code units
InitialTitle == <<"ma", "ou", "su", "mi", "no", "fu">>

\* length of the techniques array created by Array(24).fill("")
TECH_SLOTS == 24
\* rows of the technique grid
ROWS == 6
\* display caps: race text and technique text
RACE_CAP == 6
TECH_CAP == 18
\* significand width of a JavaScript number
MANT_BITS == 53

\* ------------------------------------------------------------ bounds
\* created Image objects over a run
MaxImages == 3
\* technique slots that hold text at the same time
MaxFilled == 2
\* code units by which the long technique text exceeds TECH_CAP
ExtraLen == 2
\* largest source width / height handed to fitContain
MaxSrc == 12
\* largest |w|, |h| and r handed to roundRect
MaxDim == 5

\* ------------------------------------------------------------ helpers
Min(a, b) == IF a < b THEN a ELSE b

\* s.slice(0, n)
Slice(s, n) == SubSeq(s, 1, Min(n, Len(s)))

\* a || b on strings: the empty string is falsy
OrElse(a, b) == IF a # <<>> THEN a ELSE b

\* a text of n code units, all different
Str(n) == [i \in 1..n |-> ToString(i)]

\* ------------------------------------------------------------ roundRect
\* The radius is kept doubled (r2 = 2 * r) so that min / 2 stays an integer.
roundRect(x, y, w, h, r) ==
  LET min == Min(w, h)
      r2  == IF 2 * r > min THEN min ELSE 2 * r
  IN  [x |-> x, y |-> y, w |-> w, h |-> h, r2 |-> r2, startX2 |-> 2 * x + r2]

\* ------------------------------------------------------------ binary64
\* A JavaScript number is [neg, m, e] with value (-1)^neg * m * 2^e, where
\* the significand m is a natural number of exactly MANT_BITS bits (or zero).
\* Naturals of that size are kept as sequences of 16-bit limbs, the least
\* significant first, with no zero limb at the top; zero is <<>>.
\* Every operation rounds to nearest, ties to even, as IEEE-754 does.
LIMB_BITS == 16

RECURSIVE PowerOf2(_)
PowerOf2(n) == IF n = 0 THEN 1 ELSE 2 * PowerOf2(n - 1)

Pow2Table == [n \in 0..30 |-> PowerOf2(n)]

Pow2(n) == Pow2Table[n]

LIMB == Pow2(LIMB_BITS)

Max(a, b) == IF a > b THEN a ELSE b

Abs(n) == IF n < 0 THEN 0 - n ELSE n

Limb(A, i) == IF i \in 1..Len(A) THEN A[i] ELSE 0

Trim(A) ==
  LET nz == {i \in 1..Len(A) : A[i] # 0}
  IN  IF nz = {} THEN <<>>
      ELSE SubSeq(A, 1, CHOOSE i \in nz : \A k \in nz : k <= i)

\* number of bits of a limb: least k with x < 2^k
LimbLen(x) == CHOOSE k \in 0..LIMB_BITS : x < Pow2(k) /\ (k = 0 \/ x >= Pow2(k - 1))

\* number of bits of T, which has no zero limb at the top
TrimmedBitLen(T) ==
  IF T = <<>> THEN 0 ELSE LIMB_BITS * (Len(T) - 1) + LimbLen(T[Len(T)])

BitLen(A) == TrimmedBitLen(Trim(A))

\* bit k of A, bit 0 the least significant
Bit(A, k) == (Limb(A, (k \div LIMB_BITS) + 1) \div Pow2(k % LIMB_BITS)) % 2

\* A with its s lowest bits dropped
ShiftRight(A, s) ==
  LET q == s \div LIMB_BITS
      r == s % LIMB_BITS
  IN  Trim([i \in 1..Max(Len(A) - q, 0) |->
              (A[i + q] \div Pow2(r))
              + (Limb(A, i + q + 1) % Pow2(r)) * Pow2(LIMB_BITS - r)])

\* whether one of the s lowest bits of A is set
LowBits(A, s) == \E k \in 0..(s - 1) : Bit(A, k) = 1

\* A * 2^s
ShiftLeft(A, s) ==
  LET q == s \div LIMB_BITS
      r == s % LIMB_BITS
  IN  Trim([i \in 1..(Len(A) + q + 1) |->
              ((Limb(A, i - q) * Pow2(r)) % LIMB)
              + (Limb(A, i - q - 1) \div Pow2(LIMB_BITS - r))])

\* A + 1
AddOne(A) ==
  LET ones == {i \in 1..Len(A) : \A k \in 1..i : A[k] = LIMB - 1}
      n    == Cardinality(ones)
  IN  [i \in 1..Max(Len(A), n + 1) |->
         IF i <= n THEN 0 ELSE IF i = n + 1 THEN Limb(A, i) + 1 ELSE A[i]]

\* a small natural as limbs
RECURSIVE IntLimbs(_)
IntLimbs(n) == IF n = 0 THEN <<>> ELSE <<n % LIMB>> \o IntLimbs(n \div LIMB)

\* -1, 0, 1 as A is below, equal to, above B
BigCmp(A, B) ==
  LET n    == Max(Len(A), Len(B))
      diff == {i \in 1..n : Limb(A, i) # Limb(B, i)}
  IN  IF diff = {} THEN 0
      ELSE LET top == CHOOSE i \in diff : \A k \in diff : k <= i
           IN  IF Limb(A, top) < Limb(B, top) THEN -1 ELSE 1

\* A - B for A >= B: limb i borrows when the limbs below it fall short
BigSub(A, B) ==
  LET n == Len(A)
      Borrow(i) == \E j \in 1..(i - 1) :
                     /\ Limb(A, j) < Limb(B, j)
                     /\ \A k \in (j + 1)..(i - 1) : Limb(A, k) = Limb(B, k)
  IN  Trim([i \in 1..n |->
              (A[i] - Limb(B, i) - (IF Borrow(i) THEN 1 ELSE 0) + 2 * LIMB) % LIMB])

\* A * n + carry, for n below 2^14
RECURSIVE MulSmall(_, _, _)
MulSmall(A, n, carry) ==
  IF A = <<>> THEN IntLimbs(carry)
  ELSE LET t == A[1] * n + carry
       IN  <<t % LIMB>> \o MulSmall(Tail(A), n, t \div LIMB)

\* k * 2^e for k of MANT_BITS bits, or of one more after a carry
Carried(neg, k, e) ==
  IF BitLen(k) > MANT_BITS
    THEN [neg |-> neg, m |-> ShiftRight(k, 1), e |-> e + 1]
    ELSE [neg |-> neg, m |-> k, e |-> e]

\* A of more than MANT_BITS bits, its s lowest bits rounded away: to nearest,
\* and to even when the bits dropped are exactly a half
RoundNearestEven(neg, A, s, e, sticky) ==
  Carried(neg,
          IF Bit(A, s - 1) = 1 /\ (sticky \/ LowBits(A, s - 1) \/ Bit(A, s) = 1)
            THEN AddOne(ShiftRight(A, s))
            ELSE ShiftRight(A, s),
          e + s)

\* A of L bits, with no zero limb at the top
NormalizeLen(neg, A, L, e, sticky) ==
  IF A = <<>> THEN [neg |-> FALSE, m |-> <<>>, e |-> 0]
  ELSE IF L <= MANT_BITS
    THEN [neg |-> neg, m |-> ShiftLeft(A, MANT_BITS - L), e |-> e - (MANT_BITS - L)]
  ELSE RoundNearestEven(neg, A, L - MANT_BITS, e, sticky)

\* A * 2^e (plus something below its last bit when sticky), rounded
Normalize(neg, A0, e, sticky) == NormalizeLen(neg, Trim(A0), BitLen(A0), e, sticky)

FromInt(n) == Normalize(n < 0, IntLimbs(Abs(n)), 0, FALSE)

\* n limbs of the fraction rem / d (rem < d < 2^15), the most significant
\* first, and what is left
RECURSIVE FracLimbs(_, _, _)
FracLimbs(rem, d, n) ==
  IF n = 0 THEN [limbs |-> <<>>, rem |-> rem]
  ELSE LET t    == rem * LIMB
           next == FracLimbs(t % d, d, n - 1)
       IN  [limbs |-> <<t \div d>> \o next.limbs, rem |-> next.rem]

Reverse(s) == [i \in 1..Len(s) |-> s[Len(s) + 1 - i]]

\* fraction limbs computed by a division: 80 bits below the binary point
FRAC_LIMBS == 5

\* a / b for positive integers a, b below 2^15
FDiv(a, b) ==
  LET f == FracLimbs(a % b, b, FRAC_LIMBS)
      q == Reverse(f.limbs) \o IntLimbs(a \div b)
  IN  Normalize(FALSE, q, 0 - FRAC_LIMBS * LIMB_BITS, f.rem # 0)

\* n * d for a positive integer n below 2^14
FMulInt(n, d) == Normalize(d.neg, MulSmall(d.m, n, 0), d.e, FALSE)

\* the two significands over the smaller exponent
Aligned(a, b) ==
  LET e0 == IF a.m = <<>> THEN b.e ELSE IF b.m = <<>> THEN a.e ELSE Min(a.e, b.e)
  IN  [a |-> IF a.m = <<>> THEN <<>> ELSE ShiftLeft(a.m, a.e - e0),
       b |-> IF b.m = <<>> THEN <<>> ELSE ShiftLeft(b.m, b.e - e0),
       e |-> e0]

\* a < b: -1, a = b: 0, a > b: 1, for numbers that are not negative
AlignedCmp(al) == BigCmp(al.a, al.b)

FCmp(a, b) == AlignedCmp(Aligned(a, b))

\* a - b for numbers that are not negative
AlignedSub(al, below) ==
  Normalize(below, IF below THEN BigSub(al.b, al.a) ELSE BigSub(al.a, al.b), al.e, FALSE)

FSub(a, b) == AlignedSub(Aligned(a, b), FCmp(a, b) < 0)

\* d / 2
FHalf(d) == IF d.m = <<>> THEN d ELSE [d EXCEPT !.e = @ - 1]

\* Math.min
FMin(a, b) == IF FCmp(a, b) = 1 THEN b ELSE a

\* ------------------------------------------------------------ fitContain
\* return { x: (dstW - w) / 2, y: (dstH - h) / 2, w, h }
fitCentered(dstW, dstH, w, h) ==
  [w |-> w, h |-> h,
   x |-> FHalf(FSub(FromInt(dstW), w)),
   y |-> FHalf(FSub(FromInt(dstH), h))]

\* w = srcW * ratio, h = srcH * ratio
fitScaled(srcW, srcH, dstW, dstH, ratio) ==
  fitCentered(dstW, dstH, FMulInt(srcW, ratio), FMulInt(srcH, ratio))

fitContain(srcW, srcH, dstW, dstH) ==
  fitScaled(srcW, srcH, dstW, dstH, FMin(FDiv(dstW, srcW), FDiv(dstH, srcH)))

\* ------------------------------------------------------------ state
VARIABLES
  frame, classCount,                     \* useState: frame style, class count
  title, username, monsterName,          \* useState: header texts
  exName, battleMeme,                    \* useState: secondary labels
  racePreset, raceCustom,                \* useState: race
  techniques,                            \* useState: the array of technique texts
  useDefaultIllust, uploadURL, checker,  \* useState: illustration source
  img,                                   \* useImage's state: an Image (its number) or NoImg
  effSrc,                                \* the src useImage's effect last ran with
  images,                                \* every Image created: images[i] is its src
  pending,                               \* Images whose onload has not fired yet
  reading,                               \* files a FileReader is still reading
  canvas,                                \* what the last render pass painted
  passLog,                               \* illustImg of each render pass of the last step
  lastOp,                                \* what ran last: "mount", "edit" (a field's handler),
                                         \* "mode", "handleUpload", "readerLoaded",
                                         \* "imageLoaded" or "reset"
  fitCall, rrCall,                       \* calls of fitContain / roundRect: the last one, or none
  renderCall                             \* render passes run on a snapshot of their own: the last one

formVars == <<frame, classCount, title, username, monsterName, exName, battleMeme,
              racePreset, raceCustom, techniques, useDefaultIllust, uploadURL, checker>>
loadVars == <<img, effSrc, images, pending, reading>>
viewVars == <<canvas, passLog, lastOp>>
pureVars == <<fitCall, rrCall, renderCall>>
vars == <<formVars, loadVars, viewVars, pureVars>>

\* ------------------------------------------------------------ images
\* makeCheckerDataURL(): the data URL of a 64 x 64 checkerboard
CheckerURL == "checker"

Files == {"f1", "f2"}

\* String(reader.result) of reader.readAsDataURL(file)
DataURL(file) == IF file = "f1" THEN "upload1" ELSE "upload2"

\* naturalWidth / naturalHeight of the image decoded from a source
ImgW(src) == IF src = CheckerURL THEN 64 ELSE IF src = "upload1" THEN 400 ELSE 1
ImgH(src) == IF src = CheckerURL THEN 64 ELSE IF src = "upload1" THEN 200 ELSE 11

\* ------------------------------------------------------------ arrays
\* arr[i] of a JavaScript array (index from 0): undefined past the end
ArrayGet(arr, i) == IF i \in 0..(Len(arr) - 1) THEN arr[i + 1] ELSE Undefined

\* next[i] = v: writing past the end grows the array, leaving holes
ArraySet(arr, i, v) ==
  [k \in 1..Max(Len(arr), i + 1) |->
     IF k = i + 1 THEN v ELSE IF k <= Len(arr) THEN arr[k] ELSE Undefined]

\* v || "" for a text or undefined
OrEmpty(v) == IF v = Undefined THEN <<>> ELSE v

EmptyTechniques == [i \in 1..TECH_SLOTS |-> <<>>]

\* ------------------------------------------------------------ illustSrc
illustSrcIgnoringMode(useDefault, upload, chk) ==
  IF upload # None THEN upload ELSE chk

illustSrc(useDefault, upload, chk) ==
  IF useDefault THEN chk
  ELSE IF upload # None THEN upload ELSE chk

\* ------------------------------------------------------------ render pass
\* The snapshot a render pass reads: the dependencies of the render effect
\* other than illustImg.
Deps ==
  [frame |-> frame, classCount |-> classCount, title |-> title,
   username |-> username, monsterName |-> monsterName, exName |-> exName,
   battleMeme |-> battleMeme, racePreset |-> racePreset,
   raceCustom |-> raceCustom, techniques |-> techniques]

drawFrame(style) ==
  [style  |-> style,
   panel  |-> roundRect(18, 18, CANVAS_W - 18 * 2, CANVAS_H - 18 * 2, 28),
   border |-> roundRect(18 + 6, 18 + 6, CANVAS_W - (18 + 6) * 2, CANVAS_H - (18 + 6) * 2, 28 - 8)]

illPad == 48
illX == illPad
illY == 180
illW == CANVAS_W - illPad * 2
illH == 580

\* fitContain(illustImg.width, illustImg.height, illW, illH), by source
illustFit ==
  [src \in {CheckerURL} \cup {DataURL(f) : f \in Files} |->
     fitContain(ImgW(src), ImgH(src), illW, illH)]

\* image: the drawImage calls made, none or one;
\* imgs[illustImg] is the source the Image was decoded from
drawIllustration(illustImg, imgs) ==
  [box   |-> roundRect(illX, illY, illW, illH, 24),
   image |-> IF illustImg # NoImg
               THEN << [img |-> illustImg, src |-> imgs[illustImg],
                        fit |-> illustFit[imgs[illustImg]]] >>
               ELSE <<>>]

headerH == 132
headerX == 32
headerY == 64
headerW == CANVAS_W - headerX * 2
tagMarginRight == 40
TAG_W == 64

raceTextOf(d) == Slice(OrElse(d.raceCustom, OrElse(d.racePreset, <<>>)), RACE_CAP)

reservedRightNone(raceText) == 0

reservedRight(raceText) == IF raceText # <<>> THEN TAG_W + tagMarginRight + 8 ELSE 0

\* raceTag: the tags drawn, none or one
drawHeader(d) ==
  LET raceText == raceTextOf(d)
      tagW     == IF raceText # <<>> THEN TAG_W ELSE 0
      tagH     == IF raceText # <<>> THEN headerH - 16 ELSE 0
  IN  [panel    |-> roundRect(headerX, headerY, headerW, headerH, 16),
       title    |-> [text |-> d.title, x |-> headerX + 16, y |-> headerY + 34],
       username |-> [text |-> d.username,
                     x |-> headerX + headerW - 16 - reservedRight(raceText),
                     y |-> headerY + 34],
       monster  |-> [text |-> d.monsterName, x |-> headerX + headerW \div 2,
                     y |-> headerY + headerH \div 2 + 22],
       raceTag  |-> IF raceText # <<>>
                      THEN << [rect |-> roundRect(CANVAS_W - tagW - tagMarginRight,
                                                  headerY + 8, tagW, tagH, 8),
                               text |-> raceText,
                               x |-> CANVAS_W - tagW \div 2 - tagMarginRight,
                               y |-> headerY + headerH \div 2] >>
                      ELSE <<>>]

LINE == 26
LABEL_GAP == 36
ExPrefix == <<"E", "X", ":", " ">>
MemePrefix == <<"B", "a", "t", "t", "l", "e", " ", "M", "e", "m", "e", ":", " ">>

drawLabelsFixedSlots(d) ==
  LET y0 == illY + illH + LABEL_GAP
  IN  (IF d.exName # <<>>
         THEN << [text |-> ExPrefix \o d.exName, x |-> 48, y |-> y0] >> ELSE <<>>)
      \o
      (IF d.battleMeme # <<>>
         THEN << [text |-> MemePrefix \o d.battleMeme, x |-> 48, y |-> y0 + LINE] >>
         ELSE <<>>)

drawLabels(d) ==
  LET y0 == illY + illH + LABEL_GAP
      y1 == IF d.exName # <<>> THEN y0 + LINE ELSE y0
  IN  (IF d.exName # <<>>
         THEN << [text |-> ExPrefix \o d.exName, x |-> 48, y |-> y0] >> ELSE <<>>)
      \o
      (IF d.battleMeme # <<>>
         THEN << [text |-> MemePrefix \o d.battleMeme, x |-> 48, y |-> y1] >> ELSE <<>>)

gridW == CANVAS_W - 96
gridH == 240
gx == 48
gy == CANVAS_H - gridH - 64

\* index of the cell in column c, row r
cellIndexTransposed(c, r) == r * ROWS + c

cellIndex(c, r) == c * ROWS + r

\* the cells in the order the two loops draw them
drawGrid(d) ==
  LET cols  == d.classCount
      cellW == gridW \div cols
      cellH == gridH \div ROWS
  IN  [panel |-> roundRect(gx - 8, gy - 8, gridW + 16, gridH + 16, 12),
       cells |-> [k \in 1..(cols * ROWS) |->
                    LET c == (k - 1) \div ROWS
                        r == (k - 1) % ROWS
                        x == gx + c * cellW
                        y == gy + r * cellH
                    IN  [c |-> c, r |-> r, x |-> x, y |-> y, w |-> cellW, h |-> cellH,
                         text |-> Slice(OrEmpty(ArrayGet(d.techniques, cellIndex(c, r))),
                                        TECH_CAP),
                         tx |-> x + 8, ty |-> y + cellH \div 2]]]

\* one full repaint from snapshot d with illustImg
RenderPass(d, illustImg, imgs) ==
  [frame  |-> drawFrame(d.frame),
   illust |-> drawIllustration(illustImg, imgs),
   header |-> drawHeader(d),
   labels |-> drawLabels(d),
   grid   |-> drawGrid(d)]

\* ------------------------------------------------------------ commit
\* What React does after a handler has set state: the component renders
\* again, useImage's effect runs when src changed (its cleanup clears img,
\* then a new Image starts loading), the render effect runs when one of its
\* dependencies changed, and the cleared img causes one more render.
\* newArray: the handler replaced the techniques array by a new one.
CommitNoClearPass(op, newArray) ==
  LET src         == illustSrc(useDefaultIllust', uploadURL', checker')
      srcChanged  == src # effSrc
      depsChanged == newArray \/ Deps' # Deps
      imgs        == IF srcChanged THEN Append(images, src) ELSE images
  IN  /\ srcChanged => Len(images) < MaxImages
      /\ effSrc' = src
      /\ images' = imgs
      /\ pending' = IF srcChanged THEN pending \cup {Len(imgs)} ELSE pending
      /\ img' = IF srcChanged THEN NoImg ELSE img
      /\ passLog' = IF depsChanged THEN <<img>> ELSE <<>>
      /\ canvas' = IF depsChanged THEN RenderPass(Deps', img, imgs) ELSE canvas
      /\ lastOp' = op

Commit(op, newArray) ==
  LET src         == illustSrc(useDefaultIllust', uploadURL', checker')
      srcChanged  == src # effSrc
      depsChanged == newArray \/ Deps' # Deps
      cleared     == srcChanged /\ img # NoImg
      imgs        == IF srcChanged THEN Append(images, src) ELSE images
  IN  /\ srcChanged => Len(images) < MaxImages
      /\ effSrc' = src
      /\ images' = imgs
      /\ pending' = IF srcChanged THEN pending \cup {Len(imgs)} ELSE pending
      /\ img' = IF srcChanged THEN NoImg ELSE img
      /\ passLog' = (IF depsChanged THEN <<img>> ELSE <<>>)
                    \o (IF cleared THEN <<NoImg>> ELSE <<>>)
      /\ canvas' = IF cleared \/ depsChanged
                     THEN RenderPass(Deps', IF cleared THEN NoImg ELSE img, imgs)
                     ELSE canvas
      /\ lastOp' = op

\* ------------------------------------------------------------ useImage
\* im.onload = () => setImg(im), for an Image whose load has finished
ImageLoaded(i) ==
  /\ i \in pending
  /\ pending' = pending \ {i}
  /\ img' = i
  /\ passLog' = <<i>>
  /\ canvas' = RenderPass(Deps, i, images)
  /\ lastOp' = "imageLoaded"
  /\ UNCHANGED <<formVars, effSrc, images, reading, pureVars>>

\* ------------------------------------------------------------ handlers
SetFrame(f) ==
  /\ frame' = f
  /\ UNCHANGED <<classCount, title, username, monsterName, exName, battleMeme,
                 racePreset, raceCustom, techniques, useDefaultIllust, uploadURL, checker>>
  /\ Commit("edit", FALSE)
  /\ UNCHANGED <<reading, pureVars>>

SetClassCountClearingHidden(n) ==
  /\ classCount' = n
  /\ techniques' = [i \in 1..Len(techniques) |->
                      IF i <= n * ROWS THEN techniques[i] ELSE <<>>]
  /\ UNCHANGED <<frame, title, username, monsterName, exName, battleMeme,
                 racePreset, raceCustom, useDefaultIllust, uploadURL, checker>>
  /\ Commit("edit", FALSE)
  /\ UNCHANGED <<reading, pureVars>>

SetClassCount(n) ==
  /\ classCount' = n
  /\ UNCHANGED <<frame, title, username, monsterName, exName, battleMeme,
                 racePreset, raceCustom, techniques, useDefaultIllust, uploadURL, checker>>
  /\ Commit("edit", FALSE)
  /\ UNCHANGED <<reading, pureVars>>

SetTitle(v) ==
  /\ title' = v
  /\ UNCHANGED <<frame, classCount, username, monsterName, exName, battleMeme,
                 racePreset, raceCustom, techniques, useDefaultIllust, uploadURL, checker>>
  /\ Commit("edit", FALSE)
  /\ UNCHANGED <<reading, pureVars>>

SetUsername(v) ==
  /\ username' = v
  /\ UNCHANGED <<frame, classCount, title, monsterName, exName, battleMeme,
                 racePreset, raceCustom, techniques, useDefaultIllust, uploadURL, checker>>
  /\ Commit("edit", FALSE)
  /\ UNCHANGED <<reading, pureVars>>

SetMonsterName(v) ==
  /\ monsterName' = v
  /\ UNCHANGED <<frame, classCount, title, username, exName, battleMeme,
                 racePreset, raceCustom, techniques, useDefaultIllust, uploadURL, checker>>
  /\ Commit("edit", FALSE)
  /\ UNCHANGED <<reading, pureVars>>

SetExName(v) ==
  /\ exName' = v
  /\ UNCHANGED <<frame, classCount, title, username, monsterName, battleMeme,
                 racePreset, raceCustom, techniques, useDefaultIllust, uploadURL, checker>>
  /\ Commit("edit", FALSE)
  /\ UNCHANGED <<reading, pureVars>>

SetBattleMeme(v) ==
  /\ battleMeme' = v
  /\ UNCHANGED <<frame, classCount, title, username, monsterName, exName,
                 racePreset, raceCustom, techniques, useDefaultIllust, uploadURL, checker>>
  /\ Commit("edit", FALSE)
  /\ UNCHANGED <<reading, pureVars>>

SetRacePreset(v) ==
  /\ racePreset' = v
  /\ UNCHANGED <<frame, classCount, title, username, monsterName, exName, battleMeme,
                 raceCustom, techniques, useDefaultIllust, uploadURL, checker>>
  /\ Commit("edit", FALSE)
  /\ UNCHANGED <<reading, pureVars>>

SetRaceCustom(v) ==
  /\ raceCustom' = v
  /\ UNCHANGED <<frame, classCount, title, username, monsterName, exName, battleMeme,
                 racePreset, techniques, useDefaultIllust, uploadURL, checker>>
  /\ Commit("edit", FALSE)
  /\ UNCHANGED <<reading, pureVars>>

SetUseDefaultIllust(b) ==
  /\ useDefaultIllust' = b
  /\ UNCHANGED <<frame, classCount, title, username, monsterName, exName, battleMeme,
                 racePreset, raceCustom, techniques, uploadURL, checker>>
  /\ Commit("mode", FALSE)
  /\ UNCHANGED <<reading, pureVars>>

\* The file input exists only in upload mode; without a file the handler
\* returns at once, otherwise a FileReader starts reading.
handleUpload(file) ==
  /\ ~useDefaultIllust
  /\ reading' = IF file = None THEN reading ELSE reading \cup {file}
  /\ passLog' = <<>>
  /\ lastOp' = "handleUpload"
  /\ UNCHANGED <<formVars, img, effSrc, images, pending, canvas, pureVars>>

\* reader.onload = () => setUploadURL(String(reader.result))
ReaderLoaded(file) ==
  /\ file \in reading
  /\ reading' = reading \ {file}
  /\ uploadURL' = DataURL(file)
  /\ UNCHANGED <<frame, classCount, title, username, monsterName, exName, battleMeme,
                 racePreset, raceCustom, techniques, useDefaultIllust, checker>>
  /\ Commit("readerLoaded", FALSE)
  /\ UNCHANGED pureVars

Filled(arr) == Cardinality({k \in 1..Len(arr) : arr[k] \notin {<<>>, Undefined}})

\* The inputs shown are those of the first classCount columns.
handleTechniqueChangeOffByOne(index, value) ==
  /\ index \in 0..(classCount * ROWS - 1)
  /\ techniques' = ArraySet(techniques, index + 1, value)
  /\ Filled(techniques') <= MaxFilled
  /\ UNCHANGED <<frame, classCount, title, username, monsterName, exName, battleMeme,
                 racePreset, raceCustom, useDefaultIllust, uploadURL, checker>>
  /\ Commit("edit", TRUE)
  /\ UNCHANGED <<reading, pureVars>>

handleTechniqueChange(index, value) ==
  /\ index \in 0..(classCount * ROWS - 1)
  /\ techniques' = ArraySet(techniques, index, value)
  /\ Filled(techniques') <= MaxFilled
  /\ UNCHANGED <<frame, classCount, title, username, monsterName, exName, battleMeme,
                 racePreset, raceCustom, useDefaultIllust, uploadURL, checker>>
  /\ Commit("edit", TRUE)
  /\ UNCHANGED <<reading, pureVars>>

\* the reset button's onClick
ResetKeepUpload ==
  /\ title' = <<>>
  /\ username' = <<>>
  /\ monsterName' = <<>>
  /\ exName' = <<>>
  /\ battleMeme' = <<>>
  /\ racePreset' = DEFAULT_RACES[1]
  /\ raceCustom' = <<>>
  /\ techniques' = EmptyTechniques
  /\ useDefaultIllust' = TRUE
  /\ UNCHANGED <<frame, classCount, checker, uploadURL>>
  /\ Commit("reset", TRUE)
  /\ UNCHANGED <<reading, pureVars>>

Reset ==
  /\ title' = <<>>
  /\ username' = <<>>
  /\ monsterName' = <<>>
  /\ exName' = <<>>
  /\ battleMeme' = <<>>
  /\ racePreset' = DEFAULT_RACES[1]
  /\ raceCustom' = <<>>
  /\ techniques' = EmptyTechniques
  /\ useDefaultIllust' = TRUE
  /\ uploadURL' = None
  /\ UNCHANGED <<frame, classCount, checker>>
  /\ Commit("reset", TRUE)
  /\ UNCHANGED <<reading, pureVars>>

\* ------------------------------------------------------------ pure calls
\* A call is [arguments..., out]: out is <<>> until the function has run.
CallFitContain ==
  /\ fitCall # <<>>
  /\ fitCall[1].out = <<>>
  /\ fitCall' = << [fitCall[1] EXCEPT !.out =
                      << fitContain(fitCall[1].srcW, fitCall[1].srcH,
                                    fitCall[1].dstW, fitCall[1].dstH) >>] >>
  /\ UNCHANGED <<formVars, loadVars, viewVars, rrCall, renderCall>>

CallRoundRect ==
  /\ rrCall # <<>>
  /\ rrCall[1].out = <<>>
  /\ rrCall' = << [rrCall[1] EXCEPT !.out =
                     << roundRect(rrCall[1].x, rrCall[1].y, rrCall[1].w,
                                  rrCall[1].h, rrCall[1].r) >>] >>
  /\ UNCHANGED <<formVars, loadVars, viewVars, fitCall, renderCall>>

\* the render effect's body run on a snapshot d, with no image
CallRenderPass ==
  /\ renderCall # <<>>
  /\ renderCall[1].out = <<>>
  /\ renderCall' = << [renderCall[1] EXCEPT !.out =
                         << RenderPass(renderCall[1].d, NoImg, <<>>) >>] >>
  /\ UNCHANGED <<formVars, loadVars, viewVars, fitCall, rrCall>>

\* ------------------------------------------------------------ Init
\* The state once the component has mounted: the first render painted the
\* canvas without an image, the mount effect stored the checkerboard URL and
\* the following render made useImage start loading it.
InitDeps ==
  [frame |-> "neo", classCount |-> 1, title |-> InitialTitle,
   username |-> <<>>, monsterName |-> <<>>, exName |-> <<>>,
   battleMeme |-> <<>>, racePreset |-> DEFAULT_RACES[1],
   raceCustom |-> <<>>, techniques |-> EmptyTechniques]

InitApp ==
  /\ frame = "neo"
  /\ classCount = 1
  /\ title = InitialTitle
  /\ username = <<>>
  /\ monsterName = <<>>
  /\ exName = <<>>
  /\ battleMeme = <<>>
  /\ racePreset = DEFAULT_RACES[1]
  /\ raceCustom = <<>>
  /\ techniques = EmptyTechniques
  /\ useDefaultIllust = TRUE
  /\ uploadURL = None
  /\ checker = CheckerURL
  /\ img = NoImg
  /\ effSrc = CheckerURL
  /\ images = <<CheckerURL>>
  /\ pending = {1}
  /\ reading = {}
  /\ canvas = RenderPass(InitDeps, NoImg, <<CheckerURL>>)
  /\ passLog = <<NoImg>>
  /\ lastOp = "mount"

Init ==
  /\ InitApp
  /\ fitCall = <<>>
  /\ rrCall = <<>>
  /\ renderCall = <<>>

\* ------------------------------------------------------------ inputs
ShortTexts(c) == {<<>>, <<c>>}

\* texts typed into the custom race field: empty, short, longer than RACE_CAP
RaceCustoms == {<<>>, <<"e", "l", "f">>, Str(RACE_CAP + ExtraLen)}

\* texts typed into a technique field: empty, short, longer than TECH_CAP
TechTexts == {<<>>, <<"t">>, Str(TECH_CAP + ExtraLen)}

Presets == {DEFAULT_RACES[i] : i \in 1..Len(DEFAULT_RACES)}

\* snapshots handed to a render pass on its own
Snapshots ==
  [frame : {"neo"}, classCount : 1..4, title : {<<>>},
   username : ShortTexts("u"), monsterName : {<<>>},
   exName : ShortTexts("e"), battleMeme : ShortTexts("m"),
   racePreset : {<<>>, DEFAULT_RACES[1], DEFAULT_RACES[3]},
   raceCustom : RaceCustoms, techniques : {EmptyTechniques}]

\* technique fields that get edited: the ends of the columns and their neighbours
EditIdx == {0, 1, 6, 7, 12, 18, 23}

\* boxes fitContain is asked to fill: the illustration panel and a square
DstBoxes == {<<illW, illH>>, <<200, 200>>}

FitInputs ==
  {[srcW |-> sw, srcH |-> sh, dstW |-> box[1], dstH |-> box[2], out |-> <<>>] :
     sw \in 1..MaxSrc, sh \in 1..MaxSrc, box \in DstBoxes}

RoundInputs ==
  {[x |-> 0, y |-> 0, w |-> w, h |-> h, r |-> r, out |-> <<>>] :
     w \in (0 - MaxDim)..MaxDim, h \in (0 - MaxDim)..MaxDim, r \in 0..MaxDim}
            \cup {[x |-> 0, y |-> 0, w |-> 40, h |-> 20, r |-> 50, out |-> <<>>]}

RenderInputs == {[d |-> d, out |-> <<>>] : d \in Snapshots}

\* ------------------------------------------------------------ Next
IllustNext ==
  \/ \E b \in BOOLEAN : SetUseDefaultIllust(b)
  \/ \E f \in Files \cup {None} : handleUpload(f)
  \/ \E f \in Files : ReaderLoaded(f)
  \/ \E i \in 1..MaxImages : ImageLoaded(i)
  \/ \E f \in {"neo", "dark"} : SetFrame(f)
  \/ Reset

GridNext ==
  \/ \E n \in 1..4 : SetClassCount(n)
  \/ \E i \in EditIdx, v \in TechTexts : handleTechniqueChange(i, v)
  \/ Reset

HeaderNext ==
  \/ \E v \in Presets : SetRacePreset(v)
  \/ \E v \in RaceCustoms : SetRaceCustom(v)
  \/ \E v \in ShortTexts("u") : SetUsername(v)
  \/ \E v \in ShortTexts("e") : SetExName(v)
  \/ \E v \in ShortTexts("m") : SetBattleMeme(v)
  \/ Reset

FormNext ==
  \/ SetFrame("dark")
  \/ SetClassCount(2)
  \/ SetTitle(<<"a">>)
  \/ SetUsername(<<"u">>)
  \/ SetMonsterName(<<"n">>)
  \/ SetExName(<<"e">>)
  \/ SetBattleMeme(<<"m">>)
  \/ SetRacePreset(DEFAULT_RACES[2])
  \/ SetRaceCustom(<<"r">>)
  \/ handleTechniqueChange(0, <<"t">>)
  \/ SetUseDefaultIllust(FALSE)
  \/ handleUpload("f1")
  \/ ReaderLoaded("f1")
  \/ Reset

Next ==
  \/ \E f \in FrameStyles : SetFrame(f)
  \/ \E v \in ShortTexts("a") : SetTitle(v)
  \/ \E v \in ShortTexts("n") : SetMonsterName(v)
  \/ IllustNext
  \/ GridNext
  \/ HeaderNext

Spec == Init /\ [][Next]_vars

\* the illustration source, its loads and the render passes they cause
SpecIllust == Init /\ [][IllustNext]_vars
\* class count and technique edits
SpecGrid == Init /\ [][GridNext]_vars
\* race, user name and secondary labels
SpecHeader == Init /\ [][HeaderNext]_vars
\* every field set once, then reset
SpecForm == Init /\ [][FormNext]_vars

\* fitContain over its inputs
InitFit == InitApp /\ fitCall \in {<<c>> : c \in FitInputs} /\ rrCall = <<>> /\ renderCall = <<>>
SpecFit == InitFit /\ [][CallFitContain]_vars

\* roundRect over its inputs
InitRound == InitApp /\ fitCall = <<>> /\ rrCall \in {<<c>> : c \in RoundInputs} /\ renderCall = <<>>
SpecRound == InitRound /\ [][CallRoundRect]_vars

\* one render pass over snapshots
InitRender == InitApp /\ fitCall = <<>> /\ rrCall = <<>> /\ renderCall \in {<<c>> : c \in RenderInputs}
SpecRender == InitRender /\ [][CallRenderPass]_vars

\* ------------------------------------------------------------ claims
\* the source the illustration is currently asked to show
CurrentSrc == illustSrc(useDefaultIllust, uploadURL, checker)

\* C1: the image handed to the renderer is none or the image decoded from the
\* currently requested source; the result of a superseded load is never applied.
C1_LatestRequestWins ==
  /\ img # NoImg => images[img] = CurrentSrc
  /\ canvas.illust.image # <<>> => canvas.illust.image[1].src = CurrentSrc

\* C2 as stated: techniques.length equals classCount * 6 in every reachable state.
C2_LengthIsClassCountTimesSix == Len(techniques) = classCount * ROWS

\* C2 as amended: techniques.length is 24 in every reachable state, whatever the
\* class count is; it is at least classCount * 6, and equal to it only for 4 classes.
C2_LengthIsAlways24 ==
  /\ Len(techniques) = 24
  /\ Len(techniques) >= classCount * 6
  /\ (Len(techniques) = classCount * 6) <=> (classCount = 4)

\* C2 witness: a technique of the third class has been edited
C2_Witness ==
  /\ lastOp = "edit"
  /\ classCount = 3
  /\ techniques[13] # <<>>

\* C3 as stated: after a reset every field is at its default, and the state
\* equals the initial one also in frame style and class count.
C3_ResetRestoresEveryField ==
  lastOp = "reset" =>
    /\ title = <<>> /\ username = <<>> /\ monsterName = <<>>
    /\ exName = <<>> /\ battleMeme = <<>> /\ raceCustom = <<>>
    /\ racePreset = DEFAULT_RACES[1]
    /\ useDefaultIllust /\ uploadURL = None
    /\ techniques = [i \in 1..24 |-> <<>>]
    /\ frame = "neo" /\ classCount = 1

\* C3 as amended: a reset empties title, username, monsterName, exName,
\* battleMeme and raceCustom, selects the first preset race and the default
\* illustration with no upload retained, and makes techniques 24 empty
\* strings; it leaves frame style and class count as they were.
C3_ResetFields ==
  [][Reset =>
       /\ title' = <<>> /\ username' = <<>> /\ monsterName' = <<>>
       /\ exName' = <<>> /\ battleMeme' = <<>> /\ raceCustom' = <<>>
       /\ racePreset' = DEFAULT_RACES[1]
       /\ useDefaultIllust' /\ uploadURL' = None
       /\ techniques' = [i \in 1..24 |-> <<>>]
       /\ frame' = frame /\ classCount' = classCount]_vars

\* C3 witness: a reset has run after the frame, the class count and the
\* upload were changed
C3_Witness ==
  /\ lastOp = "reset"
  /\ frame = "dark" /\ classCount = 2
  /\ title = <<>> /\ uploadURL = None /\ useDefaultIllust
  /\ \E i \in 1..Len(images) : images[i] = DataURL("f1")

\* input-state changes: a field edit, a class-count or frame change, a mode
\* switch, an upload that has been read, a reset
InputOps == {"edit", "mode", "readerLoaded", "reset"}

\* C4 as stated, for the reset it names: a reset that changes the illustration
\* source is followed by exactly one render pass.
C4_OnePassPerChange == [][(Reset /\ effSrc' # effSrc) => Len(passLog') = 1]_vars

\* C4 as amended: a commit runs one render pass when a dependency of the
\* render effect changed (a reset always replaces the techniques array), and
\* one more, without an image, when the illustration source changed while an
\* image was applied: zero, one or two passes, one after the other; every
\* load that completes afterwards adds one pass with the loaded image.
C4_PassesPerCommit ==
  [][/\ lastOp' \in InputOps =>
          /\ Len(passLog') = (IF lastOp' = "reset" \/ Deps' # Deps THEN 1 ELSE 0)
                             + (IF effSrc' # effSrc /\ img # NoImg THEN 1 ELSE 0)
          /\ (effSrc' # effSrc /\ img # NoImg) =>
                /\ passLog'[Len(passLog')] = NoImg
                /\ canvas'.illust.image = <<>>
     /\ lastOp' = "imageLoaded" => passLog' = <<img'>> /\ img' # NoImg
    ]_vars

\* C4 witness: a reset that changed the illustration source while an image
\* was shown: one pass with the old image, one without an image
C4_Witness ==
  /\ lastOp = "reset"
  /\ Len(passLog) = 2
  /\ passLog[1] # NoImg /\ passLog[2] = NoImg
  /\ pending # {}

\* the first n code units of a text
FirstUnits(t, n) == [i \in 1..(IF Len(t) < n THEN Len(t) ELSE n) |-> t[i]]

\* the cells painted for column c, row r
CellsAt(c, r) ==
  {k \in 1..Len(canvas.grid.cells) : canvas.grid.cells[k].c = c /\ canvas.grid.cells[k].r = r}

\* C5: the pass draws classCount * 6 cells, and the cell of column c, row r
\* shows the first 18 code units of techniques[c * 6 + r], nothing more.
C5_GridCells ==
  /\ Len(canvas.grid.cells) = classCount * 6
  /\ \A c \in 0..(classCount - 1), r \in 0..5 :
       /\ Cardinality(CellsAt(c, r)) = 1
       /\ \A k \in CellsAt(c, r) :
            canvas.grid.cells[k].text = FirstUnits(techniques[c * 6 + r + 1], 18)
  /\ \A k \in 1..Len(canvas.grid.cells) :
       canvas.grid.cells[k].c \in 0..(classCount - 1) /\ canvas.grid.cells[k].r \in 0..5

\* C5 witness: with two classes, a techniques[7] longer than 18 units is shown
\* cut to 18 in the second column, second row
C5_Witness ==
  /\ classCount = 2
  /\ Len(techniques[8]) > 18
  /\ \E k \in CellsAt(1, 1) :
       /\ Len(canvas.grid.cells[k].text) = 18
       /\ canvas.grid.cells[k].text = FirstUnits(techniques[8], 18)

\* the last render pass run on a snapshot of its own, once it has run
Rendered == renderCall # <<>> /\ renderCall[1].out # <<>>

\* the race text a snapshot resolves to
Resolved(d) == FirstUnits(IF d.raceCustom # <<>> THEN d.raceCustom ELSE d.racePreset, 6)

\* C6: the tag is drawn exactly when the resolved race text is not empty and
\* shows that text; with a tag the username's right anchor is moved left by
\* the reserved width (tag width 64 + margin 40 + gap 8) and lies strictly
\* left of the tag; without one it is the header's right edge minus 16.
C6_RaceTag ==
  Rendered =>
    LET d == renderCall[1].d
        h == renderCall[1].out[1].header
        headerRight == h.panel.x + h.panel.w
    IN  /\ (h.raceTag # <<>>) <=> (Resolved(d) # <<>>)
        /\ h.raceTag # <<>> =>
             /\ Len(h.raceTag) = 1
             /\ h.raceTag[1].text = Resolved(d)
             /\ h.username.x = headerRight - 16 - (64 + 40 + 8)
             /\ h.username.x < h.raceTag[1].rect.x
        /\ (d.raceCustom = <<>> /\ d.racePreset = <<>>) =>
             /\ h.raceTag = <<>>
             /\ h.username.x = headerRight - 16

\* C6 witness: no custom text and the first preset: the tag shows the preset
C6_Witness ==
  /\ Rendered
  /\ renderCall[1].d.raceCustom = <<>>
  /\ renderCall[1].d.racePreset = DEFAULT_RACES[1]
  /\ renderCall[1].out[1].header.raceTag # <<>>
  /\ renderCall[1].out[1].header.raceTag[1].text = <<"ma", "zoku">>
  /\ renderCall[1].out[1].header.username.x = 560

\* the last call of fitContain, once it has returned
Fitted == fitCall # <<>> /\ fitCall[1].out # <<>>

\* C7: for positive arguments the box returned is no wider and no higher than
\* the destination, one of the two is equal to it, and both offsets are >= 0;
\* fitContain(400, 200, 200, 200) is width 200, height 100, offsets 0 and 50.
C7_FitWithinBox ==
  Fitted =>
    LET c == fitCall[1]
        o == fitCall[1].out[1]
    IN  /\ FCmp(o.w, FromInt(c.dstW)) <= 0
        /\ FCmp(o.h, FromInt(c.dstH)) <= 0
        /\ FCmp(o.w, FromInt(c.dstW)) = 0 \/ FCmp(o.h, FromInt(c.dstH)) = 0
        /\ ~o.x.neg /\ ~o.y.neg
        /\ (c.srcW = 400 /\ c.srcH = 200 /\ c.dstW = 200 /\ c.dstH = 200) =>
             /\ o.w = FromInt(200) /\ o.h = FromInt(100)
             /\ o.x = FromInt(0) /\ o.y = FromInt(50)

\* C8: the source requested for loading is the upload exactly when upload mode
\* is selected and an upload is present, and the placeholder otherwise; the
\* Image created last is loading that source.
C8_SourceResolution ==
  /\ effSrc = (IF ~useDefaultIllust /\ uploadURL # None THEN uploadURL ELSE CheckerURL)
  /\ images[Len(images)] = effSrc
  /\ (effSrc # CheckerURL) <=> (~useDefaultIllust /\ uploadURL # None)

\* C8 witness: default mode selected while an upload is retained
C8_Witness ==
  /\ lastOp = "mode"
  /\ useDefaultIllust
  /\ uploadURL # None
  /\ effSrc = CheckerURL

\* the last call of roundRect, once it has returned
Rounded == rrCall # <<>> /\ rrCall[1].out # <<>>

\* C9: the radius used is min(r, min(w, h) / 2), never above half the shorter
\* side and never negative (radii are compared doubled).
C9_RadiusClamped ==
  Rounded =>
    LET c == rrCall[1]
        o == rrCall[1].out[1]
        shorter == IF c.w < c.h THEN c.w ELSE c.h
    IN  /\ o.r2 = (IF 2 * c.r < shorter THEN 2 * c.r ELSE shorter)
        /\ o.r2 <= shorter
        /\ o.r2 >= 0
        /\ (c.w = 40 /\ c.h = 20 /\ c.r = 50) => o.r2 = 2 * 10

\* C10: "EX: ..." is drawn exactly when exName is not empty and "Battle Meme:
\* ..." exactly when battleMeme is not empty; the first line drawn is 36 below
\* the illustration panel and each next one 26 lower, with no gap.
C10_Labels ==
  LET L  == canvas.labels
      y0 == 180 + 580 + 36
      ex == {i \in 1..Len(L) : SubSeq(L[i].text, 1, 4) = <<"E", "X", ":", " ">>}
      bm == {i \in 1..Len(L) : SubSeq(L[i].text, 1, 4) = <<"B", "a", "t", "t">>}
  IN  /\ Len(L) = Cardinality(ex) + Cardinality(bm)
      /\ Cardinality(ex) = (IF exName # <<>> THEN 1 ELSE 0)
      /\ Cardinality(bm) = (IF battleMeme # <<>> THEN 1 ELSE 0)
      /\ \A i \in ex : L[i].text = <<"E", "X", ":", " ">> \o exName /\ i = 1
      /\ \A i \in bm : L[i].text = MemePrefix \o battleMeme
                       /\ L[i].y = (IF exName # <<>> THEN y0 + 26 ELSE y0)
      /\ \A i \in 1..Len(L) : L[i].y = y0 + 26 * (i - 1)

\* C10 witness: no EX name, a battle meme: its line is drawn at the start position
C10_Witness ==
  /\ exName = <<>>
  /\ battleMeme # <<>>
  /\ Len(canvas.labels) = 1
  /\ canvas.labels[1].y = 796
  /\ canvas.labels[1].text = MemePrefix \o battleMeme

\* the indices at which two arrays of the same length differ
DiffAt(A, B) == {i \in 1..Len(A) : A[i] # B[i]}

\* C11: a class-count change leaves the techniques array as it was; a
\* technique edit keeps its length and changes at most one entry, one of a
\* column shown; so the cells shown after any step are those of the array,
\* also for columns hidden in between, and every index the renderer reads
\* (c * 6 + r for c < classCount, r < 6) is inside the array.
C11_ClassCountKeepsTechniques ==
  [][/\ classCount' # classCount => techniques' = techniques
     /\ (techniques' # techniques /\ lastOp' = "edit") =>
          /\ classCount' = classCount
          /\ Len(techniques') = Len(techniques)
          /\ Cardinality(DiffAt(techniques, techniques')) = 1
          /\ \A i \in DiffAt(techniques, techniques') : i - 1 < classCount * 6
     /\ \A c \in 0..(classCount' - 1), r \in 0..5 :
          /\ c * 6 + r + 1 \in 1..Len(techniques')
          /\ \A k \in 1..Len(canvas'.grid.cells) :
               (canvas'.grid.cells[k].c = c /\ canvas'.grid.cells[k].r = r) =>
                 canvas'.grid.cells[k].text
                   = FirstUnits(IF classCount' # classCount
                                  THEN techniques[c * 6 + r + 1]
                                  ELSE techniques'[c * 6 + r + 1], 18)
    ]_vars

\* C11 witness: the class count was lowered to 1 after a second-column entry
\* was typed: the entry is still in the array, and only the first column is drawn
C11_Witness ==
  /\ lastOp = "edit"
  /\ classCount = 1
  /\ techniques[8] # <<>>
  /\ Len(techniques) = 24
  /\ Len(canvas.grid.cells) = 6

====
